---- MODULE Spec2Model ----
(***************************************************************************)
(* Lender qualification tool (src/app.js): the CSV table parser, the US     *)
(* state normalizer, the ordered rule checks and the per-lender            *)
(* classification loop of processLenders.                                  *)
(*                                                                         *)
(* JavaScript strings are TLA+ strings; a single character is a string of  *)
(* length one.  JavaScript numbers are integers (the inputs drawn below    *)
(* never contain a decimal point or an exponent).                          *)
(***************************************************************************)
EXTENDS Integers, Sequences, FiniteSets, TLC

VARIABLES
    csvData,              \* global csvData: sequence of lender records
    criteria,             \* argument of processLenders
    pc,                   \* position inside processLenders
    index,                \* forEach index (0-based) of the next lender
    qualifiedLenders,     \* local of processLenders
    nonQualifiedLenders,  \* local of processLenders
    autoDroppedCount,     \* local of processLenders
    processingErrors,     \* local of processLenders
    trace,                \* per row: the outcome of its forEach callback
    text,                 \* argument of parseCSV
    result,               \* local `result` of parseCSV (array of field rows)
    parsed,               \* outcome of parseCSV: returned data or thrown error
    stateArg,             \* argument of getFullStateName
    fullName,             \* value getFullStateName returned
    stateCode,            \* value normalizeState returned for fullName
    phase,                \* which call of the normalizer round trip is next
    selected,             \* e.target.files[0] of the latest change event
    readers,              \* the FileReaders whose read has not completed
    selections,           \* number of change events so far
    btnDisabled           \* processBtn.disabled

engineVars == <<csvData, criteria, pc, index, qualifiedLenders,
                nonQualifiedLenders, autoDroppedCount, processingErrors, trace>>
parserVars == <<text, result, parsed>>
stateVars  == <<stateArg, fullName, stateCode, phase>>
fileVars   == <<selected, readers, selections, btnDisabled>>
vars       == <<engineVars, parserVars, stateVars, fileVars>>

(***************************************************************************)
(* JavaScript values.  A value that may be a string, a number, undefined,  *)
(* null or NaN is a tagged record; strings that are always strings (the    *)
(* arguments of the string primitives) are plain strings.                  *)
(***************************************************************************)
Str(s)    == [t |-> "str", s |-> s]
Num(n)    == [t |-> "num", n |-> n]
Undefined == [t |-> "undefined"]
NaN       == [t |-> "NaN"]
Null      == [t |-> "null"]
\* a thrown Error with its message
Thrown(m) == [t |-> "throw", message |-> m]

IsNum(v)    == v.t = "num"
IsStr(v)    == v.t = "str"
IsThrown(v) == v.t = "throw"

(***************************************************************************)
(* String primitives.                                                      *)
(***************************************************************************)
UpperLetters == "ABCDEFGHIJKLMNOPQRSTUVWXYZ"
LowerLetters == "abcdefghijklmnopqrstuvwxyz"
Digits       == "0123456789"
WhiteSpace   == {" ", "\t", "\r", "\n"}

\* s.charAt(i - 1): the empty string outside the string
CharAt(s, i) == IF i \in 1..Len(s) THEN SubSeq(s, i, i) ELSE ""

CharsOf(s) == {CharAt(s, i) : i \in 1..Len(s)}

IndexIn(alphabet, c) == CHOOSE i \in 1..Len(alphabet) : CharAt(alphabet, i) = c

UpperSet == CharsOf(UpperLetters)
LowerSet == CharsOf(LowerLetters)
DigitSet == CharsOf(Digits)

\* the lower-case letter of each upper-case one, and the converse
LowerOf == [c \in UpperSet |-> CharAt(LowerLetters, IndexIn(UpperLetters, c))]
UpperOf == [c \in LowerSet |-> CharAt(UpperLetters, IndexIn(LowerLetters, c))]
DigitOf == [c \in DigitSet |-> IndexIn(Digits, c) - 1]

IsDigit(c) == c \in DigitSet

LowerChar(c) == IF c \in UpperSet THEN LowerOf[c] ELSE c

UpperChar(c) == IF c \in LowerSet THEN UpperOf[c] ELSE c

\* s.toLowerCase(), character by character (the string is cut in halves to
\* keep the evaluation shallow)
RECURSIVE ToLowerCase(_)
ToLowerCase(s) ==
    IF Len(s) <= 1 THEN LowerChar(s)
    ELSE ToLowerCase(SubSeq(s, 1, Len(s) \div 2))
         \o ToLowerCase(SubSeq(s, (Len(s) \div 2) + 1, Len(s)))

RECURSIVE ToUpperCase(_)
ToUpperCase(s) ==
    IF Len(s) <= 1 THEN UpperChar(s)
    ELSE ToUpperCase(SubSeq(s, 1, Len(s) \div 2))
         \o ToUpperCase(SubSeq(s, (Len(s) \div 2) + 1, Len(s)))

RECURSIVE TrimStart(_)
TrimStart(s) ==
    IF s # "" /\ CharAt(s, 1) \in WhiteSpace THEN TrimStart(Tail(s)) ELSE s

RECURSIVE TrimEnd(_)
TrimEnd(s) ==
    IF s # "" /\ CharAt(s, Len(s)) \in WhiteSpace
    THEN TrimEnd(SubSeq(s, 1, Len(s) - 1))
    ELSE s

Trim(s) == TrimEnd(TrimStart(s))

Includes(s, sub) ==
    \E i \in 1..(Len(s) - Len(sub) + 1) : SubSeq(s, i, i + Len(sub) - 1) = sub

EndsWith(s, suffix) ==
    /\ Len(s) >= Len(suffix)
    /\ SubSeq(s, Len(s) - Len(suffix) + 1, Len(s)) = suffix

\* lenderName.match(/^\d+$/)
AllDigits(s) == s # "" /\ \A i \in 1..Len(s) : IsDigit(CharAt(s, i))

\* s.split(sep) for a one-character separator
RECURSIVE SplitOn(_, _, _)
SplitOn(s, sep, current) ==
    IF s = "" THEN <<current>>
    ELSE IF CharAt(s, 1) = sep THEN <<current>> \o SplitOn(Tail(s), sep, "")
    ELSE SplitOn(Tail(s), sep, current \o CharAt(s, 1))

RECURSIVE Join(_, _)
Join(parts, sep) ==
    IF Len(parts) = 0 THEN ""
    ELSE IF Len(parts) = 1 THEN parts[1]
    ELSE parts[1] \o sep \o Join(Tail(parts), sep)

(***************************************************************************)
(* Numbers and their conversions.                                          *)
(***************************************************************************)
RECURSIVE NatToString(_)
NatToString(n) ==
    IF n < 10 THEN CharAt(Digits, n + 1)
    ELSE NatToString(n \div 10) \o CharAt(Digits, (n % 10) + 1)

\* String(n), `${n}` of a number
NumToString(n) == IF n < 0 THEN "-" \o NatToString(0 - n) ELSE NatToString(n)

RECURSIVE DigitsValue(_, _)
DigitsValue(s, acc) ==
    IF s = "" THEN acc
    ELSE DigitsValue(Tail(s), acc * 10 + DigitOf[CharAt(s, 1)])

RECURSIVE DigitPrefix(_)
DigitPrefix(s) ==
    IF s # "" /\ IsDigit(CharAt(s, 1))
    THEN CharAt(s, 1) \o DigitPrefix(Tail(s))
    ELSE ""

\* parseFloat of a string: leading white space, an optional sign, then the
\* longest prefix of digits; NaN when there is no digit
ParseFloatStr(s) ==
    LET t    == TrimStart(s)
        neg  == t # "" /\ CharAt(t, 1) = "-"
        pos  == t # "" /\ CharAt(t, 1) = "+"
        body == IF neg \/ pos THEN Tail(t) ELSE t
        ds   == DigitPrefix(body)
    IN  IF ds = "" THEN NaN
        ELSE IF neg THEN Num(0 - DigitsValue(ds, 0)) ELSE Num(DigitsValue(ds, 0))

\* parseFloat(v): the argument is first converted to a string
parseFloat(v) ==
    IF IsNum(v) THEN v
    ELSE IF IsStr(v) THEN ParseFloatStr(v.s)
    ELSE NaN

\* Number(s) of a string, as isNaN(value) computes it: the whole trimmed
\* string must be an optionally signed run of digits; "" converts to 0
ToNumber(s) ==
    LET t    == Trim(s)
        neg  == t # "" /\ CharAt(t, 1) = "-"
        pos  == t # "" /\ CharAt(t, 1) = "+"
        body == IF neg \/ pos THEN Tail(t) ELSE t
    IN  IF t = "" THEN Num(0)
        ELSE IF ~AllDigits(body) THEN NaN
        ELSE IF neg THEN Num(0 - DigitsValue(body, 0))
        ELSE Num(DigitsValue(body, 0))

\* truthiness of a value
Truthy(v) ==
    CASE IsStr(v) -> v.s # ""
      [] IsNum(v) -> v.n # 0
      [] OTHER    -> FALSE

\* String(v) of a string or a number
JsString(v) == IF IsNum(v) THEN NumToString(v.n) ELSE v.s

\* String(v || '')
StringOr(v) == IF Truthy(v) THEN JsString(v) ELSE ""

\* lender[column]: undefined when the record has no such column
Get(lender, column) ==
    IF column \in DOMAIN lender THEN lender[column] ELSE Undefined

(***************************************************************************)
(* State abbreviation mapping.                                             *)
(***************************************************************************)
stateAbbreviations ==
    "alabama" :> "al" @@ "alaska" :> "ak" @@ "arizona" :> "az" @@
    "arkansas" :> "ar" @@ "california" :> "ca" @@ "colorado" :> "co" @@
    "connecticut" :> "ct" @@ "delaware" :> "de" @@ "florida" :> "fl" @@
    "georgia" :> "ga" @@ "hawaii" :> "hi" @@ "idaho" :> "id" @@
    "illinois" :> "il" @@ "indiana" :> "in" @@ "iowa" :> "ia" @@
    "kansas" :> "ks" @@ "kentucky" :> "ky" @@ "louisiana" :> "la" @@
    "maine" :> "me" @@ "maryland" :> "md" @@ "massachusetts" :> "ma" @@
    "michigan" :> "mi" @@ "minnesota" :> "mn" @@ "mississippi" :> "ms" @@
    "missouri" :> "mo" @@ "montana" :> "mt" @@ "nebraska" :> "ne" @@
    "nevada" :> "nv" @@ "new hampshire" :> "nh" @@ "new jersey" :> "nj" @@
    "new mexico" :> "nm" @@ "new york" :> "ny" @@ "north carolina" :> "nc" @@
    "north dakota" :> "nd" @@ "ohio" :> "oh" @@ "oklahoma" :> "ok" @@
    "oregon" :> "or" @@ "pennsylvania" :> "pa" @@ "rhode island" :> "ri" @@
    "south carolina" :> "sc" @@ "south dakota" :> "sd" @@ "tennessee" :> "tn" @@
    "texas" :> "tx" @@ "utah" :> "ut" @@ "vermont" :> "vt" @@
    "virginia" :> "va" @@ "washington" :> "wa" @@ "west virginia" :> "wv" @@
    "wisconsin" :> "wi" @@ "wyoming" :> "wy"

StateNames == DOMAIN stateAbbreviations
StateCodes == {stateAbbreviations[name] : name \in StateNames}

\* built by the forEach over Object.keys(stateAbbreviations): a later name
\* with the same abbreviation would overwrite an earlier one; no two names
\* of the table share one
reverseStateMap ==
    [abbrev \in StateCodes |->
        CHOOSE name \in StateNames : stateAbbreviations[name] = abbrev]

\* word.charAt(0).toUpperCase() + word.slice(1)
Capitalize(word) ==
    IF word = "" THEN "" ELSE UpperChar(CharAt(word, 1)) \o Tail(word)

\* a normalizer that forgets toLowerCase()
normalizeStateCaseSensitive(state) ==
    IF ~Truthy(state) THEN ""
    ELSE LET lower == Trim(state.s)
         IN  IF lower \in StateNames THEN stateAbbreviations[lower] ELSE lower

\* normalizeState(state) for a string or undefined argument
normalizeState(state) ==
    IF ~Truthy(state) THEN ""
    ELSE LET lower == Trim(ToLowerCase(state.s))
         IN  IF lower \in StateNames THEN stateAbbreviations[lower] ELSE lower

\* getFullStateName(state) for a string argument; the result is a string
getFullStateName(state) ==
    IF state = "" THEN ""
    ELSE LET lower == Trim(ToLowerCase(state))
         IN  IF lower \in StateCodes
             THEN LET words == SplitOn(reverseStateMap[lower], " ", "")
                  IN  Join([i \in 1..Len(words) |-> Capitalize(words[i])], " ")
             ELSE state

(***************************************************************************)
(* Rule checks.  Each returns Null (no objection), Str(reason), or the     *)
(* error it throws.                                                        *)
(***************************************************************************)
\* n.toLocaleString() of a non-negative integer: groups of three digits
RECURSIVE LocaleString(_)
LocaleString(n) ==
    IF n < 1000 THEN NatToString(n)
    ELSE LET r == n % 1000
             pad == IF r < 10 THEN "00" ELSE IF r < 100 THEN "0" ELSE ""
         IN  LocaleString(n \div 1000) \o "," \o pad \o NatToString(r)

TypeErrorReading(property) ==
    Thrown("Cannot read properties of undefined (reading '" \o property \o "')")

IsTrucking(merchantIndustry) ==
    Includes(merchantIndustry, "truck") \/ Includes(merchantIndustry, "transport")

checkCustomRestrictions(lender, crit) ==
    IF ~IsStr(crit.industry) THEN TypeErrorReading("toLowerCase")
    ELSE
    LET lenderName       == ToLowerCase(StringOr(Get(lender, "Lender Name")))
        merchantIndustry == ToLowerCase(crit.industry.s)
    IN  IF /\ Includes(lenderName, "lexio")
           /\ IsTrucking(merchantIndustry)
           /\ crit.requestedPosition >= 3
        THEN Str("Industry - Trucking 1st-2nd position only")
        ELSE IF /\ Includes(lenderName, "fyncap")
                /\ IsTrucking(merchantIndustry)
                /\ normalizeState(crit.state) = "il"
        THEN Str("Industry - Trucking not accepted in IL")
        ELSE IF /\ Includes(lenderName, "blackbridge")
                /\ IsTrucking(merchantIndustry)
                /\ normalizeState(crit.state) = "il"
        THEN Str("Industry - Trucking not accepted in IL")
        ELSE IF /\ Includes(lenderName, "smarter merchant")
                /\ crit.isSoleProp
                /\ normalizeState(crit.state) \in {"il", "ar", "ny"}
        THEN Str("Industry - Sole props not accepted in " \o crit.state.s)
        ELSE IF /\ Includes(lenderName, "idea financial")
                /\ Includes(merchantIndustry, "construction")
                /\ crit.tib < 84
        THEN Str("Industry - Construction requires 7+ years TIB")
        ELSE Null

\* a state check that looks for the merchant's token only
checkStateRestrictionsTokenOnly(lender, crit) ==
    LET stateRestrictions == StringOr(Get(lender, "State_Restrictions"))
    IN  IF stateRestrictions = "" THEN Null
        ELSE IF ~IsStr(crit.state) THEN TypeErrorReading("trim")
        ELSE IF Includes(stateRestrictions, Trim(crit.state.s))
        THEN Str("State - " \o stateRestrictions)
        ELSE Null

checkStateRestrictions(lender, crit) ==
    LET stateRestrictions == StringOr(Get(lender, "State_Restrictions"))
    IN  IF stateRestrictions = "" THEN Null
        ELSE IF ~IsStr(crit.state) THEN TypeErrorReading("trim")
        ELSE LET merchantState == Trim(crit.state.s)
                 fullStateName == getFullStateName(merchantState)
             IN  IF \/ Includes(stateRestrictions, merchantState)
                    \/ Includes(stateRestrictions, fullStateName)
                 THEN Str("State - " \o stateRestrictions)
                 ELSE Null

checkSolePropRestrictions(lender) ==
    LET requirements == ToLowerCase(StringOr(Get(lender, "Other_Key_Requirements")))
        prohibited   == ToLowerCase(StringOr(Get(lender, "Prohibited_Industries")))
        allText      == requirements \o " " \o prohibited
    IN  IF \/ Includes(allText, "no sole prop")
           \/ Includes(allText, "corp only")
           \/ Includes(allText, "sole props")
        THEN Str("Sole Prop - Not accepted")
        ELSE Null

IndustrySeparators == WhiteSpace \cup {"/", ","}

\* merchantIndustry.split(/[\s\/,]+/): a run of separators splits once
RECURSIVE SplitIndustry(_, _, _)
SplitIndustry(s, current, inRun) ==
    IF s = "" THEN <<current>>
    ELSE IF CharAt(s, 1) \in IndustrySeparators
    THEN IF inRun THEN SplitIndustry(Tail(s), "", TRUE)
         ELSE <<current>> \o SplitIndustry(Tail(s), "", TRUE)
    ELSE SplitIndustry(Tail(s), current \o CharAt(s, 1), FALSE)

checkIndustryRestrictions(lender, crit) ==
    LET prohibited == ToLowerCase(StringOr(Get(lender, "Prohibited_Industries")))
    IN  IF prohibited = "" THEN Null
        ELSE IF ~IsStr(crit.industry) THEN TypeErrorReading("toLowerCase")
        ELSE LET merchantIndustry == ToLowerCase(crit.industry.s)
                 industryKeywords == SplitIndustry(merchantIndustry, "", FALSE)
             IN  IF \E k \in 1..Len(industryKeywords) :
                        /\ Len(industryKeywords[k]) > 3
                        /\ Includes(prohibited, industryKeywords[k])
                        /\ ~Includes(prohibited, "case by case")
                 THEN Str("Industry - " \o JsString(Get(lender, "Prohibited_Industries")))
                 ELSE Null

\* the Min TIB test of checkMinimumRequirements
TibCheck(lender, crit) ==
    LET minTib == parseFloat(Get(lender, "Min_TIB_Months"))
    IN  IF minTib # NaN /\ crit.tib < minTib.n
        THEN Str("TIB - Min " \o NumToString(minTib.n) \o " months")
        ELSE Null

\* the Min Revenue test of checkMinimumRequirements
RevenueCheck(lender, crit) ==
    LET minRevenue == parseFloat(Get(lender, "Min_Monthly_Revenue"))
    IN  IF minRevenue # NaN /\ crit.monthlyRevenue < minRevenue.n
        THEN Str("Revenue - Min $" \o
                 (IF minRevenue.n < 0 THEN "-" \o LocaleString(0 - minRevenue.n)
                  ELSE LocaleString(minRevenue.n)))
        ELSE Null

FicoTolerance == 20

\* a FICO test that blocks at the tolerance boundary itself
FicoCheckInclusive(lender, crit) ==
    LET minFico == parseFloat(Get(lender, "Min_FICO"))
    IN  IF minFico # NaN /\ crit.fico <= (minFico.n - FicoTolerance)
        THEN Str("FICO - Min " \o NumToString(minFico.n) \o " (with 20pt tolerance)")
        ELSE Null

\* the Min FICO test of checkMinimumRequirements
FicoCheck(lender, crit) ==
    LET minFico == parseFloat(Get(lender, "Min_FICO"))
    IN  IF minFico # NaN /\ crit.fico < (minFico.n - FicoTolerance)
        THEN Str("FICO - Min " \o NumToString(minFico.n) \o " (with 20pt tolerance)")
        ELSE Null

checkMinimumRequirements(lender, crit) ==
    IF TibCheck(lender, crit) # Null THEN TibCheck(lender, crit)
    ELSE IF RevenueCheck(lender, crit) # Null THEN RevenueCheck(lender, crit)
    ELSE FicoCheck(lender, crit)

(***************************************************************************)
(* parseCSV.                                                               *)
(***************************************************************************)
\* text.split(/\r?\n/): the pieces between line feeds; a piece that is
\* followed by a line feed loses one trailing carriage return, the last
\* piece keeps what it has
SplitLines(s) ==
    LET feeds    == {i \in 1..Len(s) : CharAt(s, i) = "\n"}
        count    == Cardinality(feeds)
        \* position of the k-th line feed; 0 before the first piece
        feedAt(k) == IF k = 0 THEN 0
                     ELSE CHOOSE i \in feeds :
                            Cardinality({j \in feeds : j <= i}) = k
        piece(k) == IF k <= count
                    THEN SubSeq(s, feedAt(k - 1) + 1, feedAt(k) - 1)
                    ELSE SubSeq(s, feedAt(k - 1) + 1, Len(s))
    IN  [k \in 1..(count + 1) |->
            IF k <= count /\ EndsWith(piece(k), "\r")
            THEN SubSeq(piece(k), 1, Len(piece(k)) - 1)
            ELSE piece(k)]

\* a filter that keeps every non-empty line, white space included
NonBlankUntrimmed(line) == line # ""

\* .filter(line => line.trim())
NonBlank(line) == Trim(line) # ""

\* the state of the inner for loop before it reads line[i]
ScanStart == [i |-> 1, current |-> "", inQuotes |-> FALSE, row |-> <<>>]

\* a scanner without the doubled-quote case: every quote toggles
ScanStepNoEscape(line, st) ==
    IF st.i > Len(line) THEN st
    ELSE IF CharAt(line, st.i) = "\""
    THEN [st EXCEPT !.i = st.i + 1, !.inQuotes = ~st.inQuotes]
    ELSE IF CharAt(line, st.i) = "," /\ ~st.inQuotes
    THEN [st EXCEPT !.i = st.i + 1, !.current = "",
                    !.row = Append(st.row, Trim(st.current))]
    ELSE [st EXCEPT !.i = st.i + 1,
                    !.current = st.current \o CharAt(line, st.i)]

\* one iteration of the inner for loop, its i++ included; past the end of
\* the line the loop has exited and nothing changes
ScanStep(line, st) ==
    IF st.i > Len(line) THEN st
    ELSE IF CharAt(line, st.i) = "\""
    THEN IF st.inQuotes /\ st.i < Len(line) /\ CharAt(line, st.i + 1) = "\""
         THEN [st EXCEPT !.i = st.i + 2, !.current = st.current \o "\""]
         ELSE [st EXCEPT !.i = st.i + 1, !.inQuotes = ~st.inQuotes]
    ELSE IF CharAt(line, st.i) = "," /\ ~st.inQuotes
    THEN [st EXCEPT !.i = st.i + 1, !.current = "",
                    !.row = Append(st.row, Trim(st.current))]
    ELSE [st EXCEPT !.i = st.i + 1,
                    !.current = st.current \o CharAt(line, st.i)]

\* n iterations of the loop, run in two halves: the state `mid` after the
\* first half is computed before the second half starts
RECURSIVE ScanLoop(_, _, _)
ScanLoop(line, st, n) ==
    IF n = 0 THEN st
    ELSE IF n = 1 THEN ScanStep(line, st)
    ELSE CHOOSE end \in {ScanLoop(line, mid, n - (n \div 2)) :
                            mid \in {ScanLoop(line, st, n \div 2)}} : TRUE

\* row.push(current.trim()) after the loop: the last field
LastField(st) == Append(st.row, Trim(st.current))

\* the field row of one line: the loop runs at most once per character
SplitFields(line) == LastField(ScanLoop(line, ScanStart, Len(line)))

\* the typing of one cell: trimmed; a number when the whole cell is numeric
ConvertCell(cell) ==
    LET value == Trim(cell)
    IN  IF value # "" /\ ToNumber(value) # NaN
        THEN parseFloat(Str(value))
        ELSE Str(value)

\* headers.forEach((header, index) => ...): result[i][index] || '' for every
\* header; a repeated header keeps the value of its last column
RowObject(headers, fields) ==
    [h \in {headers[k] : k \in 1..Len(headers)} |->
        LET last == CHOOSE k \in 1..Len(headers) :
                        /\ headers[k] = h
                        /\ \A j \in 1..Len(headers) : headers[j] = h => j <= k
        IN  ConvertCell(IF last <= Len(fields) THEN fields[last] ELSE "")]

\* row['Lender Name'] && String(row['Lender Name']).trim()
HasLenderName(row) ==
    /\ Truthy(Get(row, "Lender Name"))
    /\ Trim(JsString(Get(row, "Lender Name"))) # ""

Arr(rows) == [t |-> "array", rows |-> rows]

FormatErrorMessage == "CSV must have at least a header row and one data row"

\* the array `result` of parseCSV: one field row per non-blank line
ResultRows(txt) ==
    LET lines == SelectSeq(SplitLines(txt), NonBlank)
    IN  [i \in 1..Len(lines) |-> SplitFields(lines[i])]

parseCSV(txt) ==
    LET lines == SelectSeq(SplitLines(txt), NonBlank)
    IN  IF Len(lines) < 2
        THEN Thrown("CSV parsing failed: " \o FormatErrorMessage)
        ELSE LET res     == ResultRows(txt)
                 headers == [k \in 1..Len(res[1]) |-> Trim(res[1][k])]
                 objects == [i \in 1..(Len(res) - 1) |->
                                RowObject(headers, res[i + 1])]
             IN  Arr(SelectSeq(objects, HasLenderName))

(***************************************************************************)
(* processLenders: the callback of csvData.forEach for one lender.         *)
(***************************************************************************)
\* a chain in which a later objection replaces the one already found
RunCheckOverwrite(st, name, enabled, outcome) ==
    IF IsThrown(st.rule) \/ ~enabled THEN st
    ELSE [rule |-> IF outcome = Null THEN st.rule ELSE outcome,
          ran |-> Append(st.ran, name)]

\* one `if (!blockingRule ...) blockingRule = check(...)` line: the check is
\* called only when no rule blocks yet; an error it throws ends the callback
RunCheck(st, name, enabled, outcome) ==
    IF IsThrown(st.rule) \/ Truthy(st.rule) \/ ~enabled THEN st
    ELSE [rule |-> outcome, ran |-> Append(st.ran, name)]

PositionCheck(posMin, posMax, crit) ==
    IF crit.requestedPosition < posMin \/ crit.requestedPosition > posMax
    THEN Str("Position - Positions " \o NumToString(posMin) \o "-"
             \o NumToString(posMax))
    ELSE Null

RuleChain(lender, crit, posMin, posMax) ==
    LET s1 == [rule |-> PositionCheck(posMin, posMax, crit), ran |-> <<"position">>]
        s2 == RunCheck(s1, "custom", TRUE, checkCustomRestrictions(lender, crit))
        s3 == RunCheck(s2, "state", TRUE, checkStateRestrictions(lender, crit))
        s4 == RunCheck(s3, "soleProp", crit.isSoleProp, checkSolePropRestrictions(lender))
        s5 == RunCheck(s4, "industry", TRUE, checkIndustryRestrictions(lender, crit))
        s6 == RunCheck(s5, "minimum", TRUE, checkMinimumRequirements(lender, crit))
    IN  s6

Outcome(kind, name, rule, ran) ==
    [kind |-> kind, lender |-> name, rule |-> rule, ran |-> ran]

\* a name test that forgets toLowerCase()
InvalidNameCaseSensitive(lenderName) ==
    \/ Includes(lenderName, "$")
    \/ AllDigits(lenderName)
    \/ Includes(lenderName, "total")
    \/ Includes(lenderName, "summary")

\* "Skip obviously invalid rows": the test on the lender name
InvalidName(lenderName) ==
    \/ Includes(lenderName, "$")
    \/ AllDigits(lenderName)
    \/ Includes(ToLowerCase(lenderName), "total")
    \/ Includes(ToLowerCase(lenderName), "summary")

\* the end of the try block: the error the chain threw, or the final
\* classification on blockingRule
Conclude(st, lenderName) ==
    IF IsThrown(st.rule) THEN Outcome("error", lenderName, st.rule.message, st.ran)
    ELSE IF Truthy(st.rule) THEN Outcome("nonQualified", lenderName, st.rule.s, st.ran)
    ELSE Outcome("qualified", lenderName, "", st.ran)

\* the try block of the callback once lenderName, posMin and posMax are
\* computed; kind is one of "dropped", "nonQualified", "qualified", "error"
EvaluateRow(lender, crit, lenderName, posMin, posMax) ==
    IF lenderName = "" \/ Len(lenderName) < 2
    THEN Outcome("dropped", lenderName, "", <<>>)
    ELSE IF InvalidName(lenderName)
    THEN Outcome("dropped", lenderName, "", <<>>)
    ELSE IF posMin = NaN \/ posMax = NaN
    THEN Outcome("dropped", lenderName, "", <<>>)
    ELSE Conclude(RuleChain(lender, crit, posMin.n, posMax.n), lenderName)

EvaluateLender(lender, crit) ==
    EvaluateRow(lender, crit,
                Trim(StringOr(Get(lender, "Lender Name"))),
                parseFloat(Get(lender, "pos_min")),
                parseFloat(Get(lender, "pos_max")))

(***************************************************************************)
(* Inputs.  A dataset is what parseCSV builds from a header row and field  *)
(* rows; the criteria are the argument processLenders is called with.      *)
(***************************************************************************)
MaxRows == 2

Columns ==
    <<"Lender Name", "pos_min", "pos_max", "State_Restrictions",
      "Prohibited_Industries", "Other_Key_Requirements", "Min_TIB_Months",
      "Min_Monthly_Revenue", "Min_FICO">>

\* header rows of the datasets: every column, or the first two only
HeaderRows == {Columns, SubSeq(Columns, 1, 2)}

FieldRows ==
    { <<"A", "1", "5", "", "", "", "", "", "">>,
      <<"$500 Fund", "1", "5", "", "", "", "", "", "">>,
      <<"€500 Fund", "1", "5", "", "", "", "", "", "">>,
      <<"1234", "1", "5", "", "", "", "", "", "">>,
      <<"Sub Total", "1", "5", "", "", "", "", "", "">>,
      <<"SUMMARY", "1", "5", "", "", "", "", "", "">>,
      <<"Bolt", "", "5", "NY", "", "", "", "", "">>,
      <<"Volt", "1", "n/a", "NY", "", "", "", "", "">>,
      <<"Lexio Capital", "1", "4", "TX", "", "", "", "", "">>,
      <<"Acme Fund", "1", "2", "NY, Texas", "Trucking, Retail",
        "No sole props", "12", "15000", "700">>,
      <<"Zed Co", "1", "5", "", "Trucking case by case", "Corp only",
        "", "", "N/A">> }

\* field rows of an export that has the first two columns only
ShortFieldRows == {<<"A", "1">>, <<"Lexio Capital", "1">>}

Lenders(headers) ==
    {row \in {RowObject(headers, fields) :
                fields \in IF headers = Columns THEN FieldRows
                           ELSE ShortFieldRows} :
        HasLenderName(row)}

RECURSIVE SeqsUpTo(_, _)
SeqsUpTo(S, n) ==
    IF n = 0 THEN {<<>>}
    ELSE LET shorter == SeqsUpTo(S, n - 1)
         IN  shorter \cup {Append(q, x) : q \in shorter, x \in S}

Datasets == UNION {SeqsUpTo(Lenders(headers), MaxRows) : headers \in HeaderRows}

BaseCriteria ==
    [requestedPosition |-> 1, tib |-> 100, monthlyRevenue |-> 20000,
     fico |-> 680, state |-> Str("Ohio"), industry |-> Str("Food / Bar"),
     isSoleProp |-> FALSE]

Criteria ==
    { BaseCriteria,
      [BaseCriteria EXCEPT !.requestedPosition = 3],
      [BaseCriteria EXCEPT !.industry = Str("Trucking")],
      [BaseCriteria EXCEPT !.industry = Str("Retail / Food")],
      [BaseCriteria EXCEPT !.industry = Undefined],
      [BaseCriteria EXCEPT !.state = Str("NY")],
      [BaseCriteria EXCEPT !.state = Str("tx")],
      [BaseCriteria EXCEPT !.state = Undefined],
      [BaseCriteria EXCEPT !.isSoleProp = TRUE],
      [BaseCriteria EXCEPT !.fico = 679],
      [BaseCriteria EXCEPT !.tib = 6],
      [BaseCriteria EXCEPT !.monthlyRevenue = 5000],
      [BaseCriteria EXCEPT !.tib = 6, !.monthlyRevenue = 5000, !.fico = 679],
      [BaseCriteria EXCEPT !.requestedPosition = 3, !.industry = Str("Trucking")],
      [BaseCriteria EXCEPT !.isSoleProp = TRUE, !.industry = Str("Trucking")],
      [BaseCriteria EXCEPT !.isSoleProp = TRUE, !.state = Str("NY"),
                           !.industry = Str("Retail / Food")],
      [BaseCriteria EXCEPT !.state = Undefined, !.industry = Str("Trucking"),
                           !.isSoleProp = TRUE],
      [requestedPosition |-> 3, tib |-> 6, monthlyRevenue |-> 5000,
       fico |-> 300, state |-> Str("NY"), industry |-> Str("Trucking"),
       isSoleProp |-> TRUE] }

(***************************************************************************)
(* processLenders.                                                         *)
(***************************************************************************)
EngineIdle ==
    /\ pc = "idle"
    /\ index = 0
    /\ criteria = BaseCriteria
    /\ qualifiedLenders = <<>>
    /\ nonQualifiedLenders = <<>>
    /\ autoDroppedCount = 0
    /\ processingErrors = <<>>
    /\ trace = <<>>

ParserIdle == text = "" /\ result = <<>> /\ parsed = Null

NormalizerIdle ==
    stateArg = "" /\ fullName = "" /\ stateCode = "" /\ phase = "idle"

\* no file chosen in the csvFile input, no read under way
FileIdle ==
    selected = Undefined /\ readers = {} /\ selections = 0 /\ btnDisabled = TRUE

Init ==
    /\ csvData \in {Null} \cup {Arr(d) : d \in Datasets}
    /\ EngineIdle
    /\ ParserIdle
    /\ NormalizerIdle
    /\ FileIdle

\* entry of processLenders(c): fresh locals, then the guard on csvData
ProcessLendersCall(c) ==
    /\ criteria' = c
    /\ qualifiedLenders' = <<>>
    /\ nonQualifiedLenders' = <<>>
    /\ autoDroppedCount' = 0
    /\ processingErrors' = <<>>
    /\ trace' = <<>>
    /\ index' = 0
    /\ pc' = IF csvData = Null \/ Len(csvData.rows) = 0 THEN "noData" ELSE "forEach"
    /\ UNCHANGED <<csvData, parserVars, stateVars, fileVars>>

\* every call starts from the same fresh locals, so one call per behaviour,
\* from any dataset and with any criteria, covers every call
ProcessLenders == pc = "idle" /\ \E c \in Criteria : ProcessLendersCall(c)

\* a catch block that records the error and forgets autoDroppedCount++
AutoDroppedUncaught(o) == o.kind = "dropped"

\* the outcomes that run autoDroppedCount++: the three early returns and
\* the catch block
AutoDropped(o) == o.kind \in {"dropped", "error"}

\* a catch block that labels the diagnostic with the 0-based index
CatchErrorZeroBased(errors, o, idx) ==
    IF o.kind = "error"
    THEN Append(errors, "Row " \o NumToString(idx) \o ": " \o o.rule)
    ELSE errors

\* processingErrors.push(`Row ${index + 1}: ${error.message}`) of the catch
\* block; no other outcome touches the list
CatchError(errors, o, idx) ==
    IF o.kind = "error"
    THEN Append(errors, "Row " \o NumToString(idx + 1) \o ": " \o o.rule)
    ELSE errors

\* one call of the forEach callback, the catch block included
ForEachLender ==
    /\ pc = "forEach"
    /\ index < Len(csvData.rows)
    /\ \E lender \in {csvData.rows[index + 1]} :
       \E o \in {EvaluateLender(lender, criteria)} :
           /\ qualifiedLenders' =
                IF o.kind = "qualified" THEN Append(qualifiedLenders, lender)
                ELSE qualifiedLenders
           /\ nonQualifiedLenders' =
                IF o.kind = "nonQualified"
                THEN Append(nonQualifiedLenders,
                            [lender |-> o.lender, blockingRule |-> o.rule])
                ELSE nonQualifiedLenders
           /\ processingErrors' = CatchError(processingErrors, o, index)
           /\ autoDroppedCount' =
                IF AutoDropped(o) THEN autoDroppedCount + 1
                ELSE autoDroppedCount
           /\ trace' = Append(trace, o)
    /\ index' = index + 1
    /\ UNCHANGED <<csvData, criteria, pc, parserVars, stateVars, fileVars>>

\* the forEach is over: displayResults receives the four locals
DisplayResults ==
    /\ pc = "forEach"
    /\ index = Len(csvData.rows)
    /\ pc' = "done"
    /\ UNCHANGED <<csvData, criteria, index, qualifiedLenders,
                   nonQualifiedLenders, autoDroppedCount, processingErrors,
                   trace, parserVars, stateVars, fileVars>>

Next == ProcessLenders \/ ForEachLender \/ DisplayResults

Spec == Init /\ [][Next]_vars

(***************************************************************************)
(* Properties of processLenders.                                           *)
(***************************************************************************)
Rows == IF csvData = Null THEN <<>> ELSE csvData.rows

\* the rows the forEach has handled so far
Handled == 1..Len(trace)

\* C1: when processLenders finishes, the qualified and non-qualified
\* sequences and the auto-dropped count together account for every parsed
\* row, rows whose evaluation throws included.
C1_PartitionComplete ==
    pc = "done" =>
        Len(qualifiedLenders) + Len(nonQualifiedLenders) + autoDroppedCount
            = Len(Rows)

\* a finished run over two rows in which one row threw and one qualified
C1_Witness ==
    /\ pc = "done"
    /\ Len(Rows) = 2
    /\ Len(processingErrors) = 1
    /\ Len(qualifiedLenders) = 1

(***************************************************************************)
(* The rule checks evaluated one by one, each on its own, in the order of  *)
(* the specification.                                                      *)
(***************************************************************************)
CheckOrder == <<"position", "custom", "state", "soleProp", "industry", "minimum">>

\* the checks that apply under the criteria: the sole-proprietor check only
\* when isSoleProp is true
Applicable(crit) ==
    SelectSeq(CheckOrder, LAMBDA name : name # "soleProp" \/ crit.isSoleProp)

CheckResult(name, lender, crit) ==
    CASE name = "position" ->
            PositionCheck(parseFloat(Get(lender, "pos_min")).n,
                          parseFloat(Get(lender, "pos_max")).n, crit)
      [] name = "custom"   -> checkCustomRestrictions(lender, crit)
      [] name = "state"    -> checkStateRestrictions(lender, crit)
      [] name = "soleProp" -> checkSolePropRestrictions(lender)
      [] name = "industry" -> checkIndustryRestrictions(lender, crit)
      [] name = "minimum"  -> checkMinimumRequirements(lender, crit)

\* the position in Applicable(crit) of the first check that does not return
\* "no objection"; 0 when every check passes
FirstObjecting(lender, crit) ==
    LET order == Applicable(crit)
        hits  == {k \in 1..Len(order) : CheckResult(order[k], lender, crit) # Null}
    IN  IF hits = {} THEN 0 ELSE CHOOSE k \in hits : \A j \in hits : k <= j

\* the entries nonQualifiedLenders must hold after the rows handled so far
NonQualifiedOfTrace ==
    LET blocked == SelectSeq(trace, LAMBDA o : o.kind = "nonQualified")
    IN  [j \in 1..Len(blocked) |->
            [lender |-> blocked[j].lender, blockingRule |-> blocked[j].rule]]

\* C2: a lender that reaches rule evaluation has its checks run in the
\* fixed order position, custom, state, sole proprietor (only when
\* isSoleProp), industry, minimum, up to the first that objects; the reason
\* recorded for a non-qualified lender is the reason of that first check.
C2_FirstObjectionWins ==
    /\ nonQualifiedLenders = NonQualifiedOfTrace
    /\ \A i \in Handled :
        trace[i].kind # "dropped" =>
            \E order \in {Applicable(criteria)} :
            \E first \in {FirstObjecting(Rows[i], criteria)} :
                /\ trace[i].ran =
                     SubSeq(order, 1, IF first = 0 THEN Len(order) ELSE first)
                /\ (trace[i].kind = "qualified") = (first = 0)
                /\ trace[i].kind = "nonQualified" =>
                     CheckResult(order[first], Rows[i], criteria) = Str(trace[i].rule)

\* a non-qualified lender blocked by the state check while the
\* sole-proprietor and industry checks, later in the order, object too
C2_Witness ==
    \E i \in Handled :
        /\ trace[i].kind = "nonQualified"
        /\ trace[i].ran = <<"position", "custom", "state">>
        /\ criteria.isSoleProp
        /\ checkSolePropRestrictions(Rows[i]) # Null
        /\ checkIndustryRestrictions(Rows[i], criteria) # Null
        /\ nonQualifiedLenders[Len(nonQualifiedLenders)].blockingRule
             = "State - NY, Texas"

(***************************************************************************)
(* Structural validation.                                                  *)
(***************************************************************************)
\* the lender name as text
NameText(lender) == Trim(JsString(Get(lender, "Lender Name")))

\* a position bound that is missing (no column, empty cell) or does not
\* start with an optionally signed number
PositionUnusable(v) ==
    \/ v = Undefined
    \/ /\ IsStr(v)
       /\ ~IsDigit(CharAt(v.s, 1))
       /\ ~(CharAt(v.s, 1) \in {"-", "+"} /\ IsDigit(CharAt(v.s, 2)))

\* the rows the specification sends to AutoDropped, for a given set of
\* currency symbols
StructurallyInvalid(lender, symbols) ==
    \/ Len(NameText(lender)) < 2
    \/ \E c \in symbols : Includes(NameText(lender), c)
    \/ AllDigits(NameText(lender))
    \/ Includes(ToLowerCase(NameText(lender)), "total")
    \/ Includes(ToLowerCase(NameText(lender)), "summary")
    \/ PositionUnusable(Get(lender, "pos_min"))
    \/ PositionUnusable(Get(lender, "pos_max"))

DroppedWhenInvalid(symbols) ==
    /\ \A i \in Handled :
        StructurallyInvalid(Rows[i], symbols) =>
            trace[i].kind = "dropped" /\ trace[i].ran = <<>>
    /\ Len(qualifiedLenders) + Len(nonQualifiedLenders)
         <= Cardinality({i \in Handled : ~StructurallyInvalid(Rows[i], symbols)})
    /\ autoDroppedCount
         >= Cardinality({i \in Handled : StructurallyInvalid(Rows[i], symbols)})

CurrencySymbols == {"$", "€", "£"}

\* C3 as stated: a lender whose name is under 2 characters, contains a
\* currency symbol, is purely numeric or contains "total"/"summary", or
\* whose pos_min or pos_max is missing or unparseable, is auto-dropped with
\* no rule check run and is in neither result sequence.
C3_AsStated == DroppedWhenInvalid(CurrencySymbols)

\* C3 amended: the same with the dollar sign as the only currency symbol
\* that is looked for.
C3_DroppedWhenInvalid == DroppedWhenInvalid({"$"})

\* a finished run whose rows were dropped for a dollar sign in the name and
\* for an unparseable pos_max
C3_Witness ==
    /\ pc = "done"
    /\ \E i \in Handled : Includes(NameText(Rows[i]), "$")
    /\ \E i \in Handled : Get(Rows[i], "pos_max") = Str("n/a")
    /\ autoDroppedCount = 2
    /\ qualifiedLenders = <<>>
    /\ nonQualifiedLenders = <<>>

(***************************************************************************)
(* Errors thrown while one lender is evaluated.                            *)
(***************************************************************************)
\* the rows whose callback threw
Faulty == {i \in Handled : trace[i].kind = "error"}

\* the dataset without those rows
WithoutFaulty ==
    LET kept == SelectSeq([i \in 1..Len(Rows) |-> i], LAMBDA i : i \notin Faulty)
    IN  [j \in 1..Len(kept) |-> Rows[kept[j]]]

KindOf(lender) == EvaluateLender(lender, criteria).kind

\* the diagnostics that name row i
MessagesOf(i) ==
    {k \in 1..Len(processingErrors) :
        LET prefix == "Row " \o NumToString(i) \o ": "
        IN  /\ Len(processingErrors[k]) >= Len(prefix)
            /\ SubSeq(processingErrors[k], 1, Len(prefix)) = prefix}

\* C4: a lender whose evaluation throws is counted as auto-dropped, is in
\* neither result sequence and gets exactly one diagnostic; the run goes on
\* to the end and classifies the other lenders as if that row were absent.
C4_FaultIsolated ==
    pc = "done" =>
        /\ Len(trace) = Len(Rows)
        /\ \A i \in Faulty : Cardinality(MessagesOf(i)) = 1
        /\ Len(processingErrors) = Cardinality(Faulty)
        /\ \E clean \in {WithoutFaulty} :
            /\ \A j \in 1..Len(clean) : KindOf(clean[j]) # "error"
            /\ qualifiedLenders =
                 SelectSeq(clean, LAMBDA l : KindOf(l) = "qualified")
            /\ [j \in 1..Len(nonQualifiedLenders) |-> nonQualifiedLenders[j].lender]
                 = [j \in 1..Len(SelectSeq(clean, LAMBDA l : KindOf(l) = "nonQualified")) |->
                      NameText(SelectSeq(clean, LAMBDA l : KindOf(l) = "nonQualified")[j])]
            /\ autoDroppedCount =
                 Cardinality(Faulty)
                 + Len(SelectSeq(clean, LAMBDA l : KindOf(l) = "dropped"))

\* a finished run whose first row threw and whose second row was still
\* classified
C4_Witness ==
    /\ pc = "done"
    /\ Len(trace) = 2
    /\ trace[1].kind = "error"
    /\ trace[2].kind = "nonQualified"
    /\ Len(processingErrors) = 1
    /\ autoDroppedCount = 1

(***************************************************************************)
(* The FICO test and the state restriction.                                *)
(***************************************************************************)
\* row i got as far as the FICO test: the minimum check ran and neither the
\* TIB nor the revenue test blocked
ReachedFico(i) ==
    /\ trace[i].kind \in {"qualified", "nonQualified"}
    /\ trace[i].ran[Len(trace[i].ran)] = "minimum"
    /\ TibCheck(Rows[i], criteria) = Null
    /\ RevenueCheck(Rows[i], criteria) = Null

\* C5: the FICO test blocks exactly when Min_FICO parses to a number and
\* fico < Min_FICO - 20; with Min_FICO = 700 a fico of 680 passes and 679
\* is blocked; a missing or unparseable Min_FICO never blocks.
C5_FicoTolerance ==
    \A i \in Handled :
        ReachedFico(i) =>
            \E minFico \in {parseFloat(Get(Rows[i], "Min_FICO"))} :
                /\ (trace[i].kind = "nonQualified")
                     = (minFico # NaN /\ criteria.fico < minFico.n - 20)
                /\ trace[i].kind = "nonQualified" =>
                     trace[i].rule = "FICO - Min " \o NumToString(minFico.n)
                                       \o " (with 20pt tolerance)"
                /\ PositionUnusable(Get(Rows[i], "Min_FICO")) =>
                     trace[i].kind = "qualified"
                /\ minFico = Num(700) /\ criteria.fico = 680 =>
                     trace[i].kind = "qualified"
                /\ minFico = Num(700) /\ criteria.fico = 679 =>
                     trace[i].kind = "nonQualified"

\* a lender with Min_FICO 700 blocked at fico 679 beside one without a
\* usable Min_FICO that the FICO test let through
C5_Witness ==
    /\ criteria.fico = 679
    /\ \E i \in Handled :
        /\ ReachedFico(i)
        /\ Get(Rows[i], "Min_FICO") = Num(700)
        /\ trace[i].rule = "FICO - Min 700 (with 20pt tolerance)"
    /\ \E i \in Handled :
        /\ ReachedFico(i)
        /\ Get(Rows[i], "Min_FICO") = Str("N/A")
        /\ trace[i].kind = "qualified"

\* the state check was called for row i with a string as criteria.state
StateChecked(i) ==
    /\ IsStr(criteria.state)
    /\ \E k \in 1..Len(trace[i].ran) : trace[i].ran[k] = "state"

StateBlocked(i) ==
    /\ trace[i].kind = "nonQualified"
    /\ trace[i].ran[Len(trace[i].ran)] = "state"

\* C10: the state check blocks with "State - {restriction text}" exactly
\* when the restriction text is non-empty and contains the merchant's
\* trimmed state token or the full state name of that token.
C10_StateRestriction ==
    \A i \in Handled :
        StateChecked(i) =>
            \E restriction \in {StringOr(Get(Rows[i], "State_Restrictions"))} :
            \E token \in {Trim(criteria.state.s)} :
                /\ StateBlocked(i)
                     = (/\ restriction # ""
                        /\ \/ Includes(restriction, token)
                           \/ Includes(restriction, getFullStateName(token)))
                /\ StateBlocked(i) => trace[i].rule = "State - " \o restriction
                /\ ~StateBlocked(i) => trace[i].ran[Len(trace[i].ran)] # "state"

\* a lender blocked because its restriction text holds the full name of
\* the merchant's state code, not the code itself
C10_Witness ==
    /\ criteria.state = Str("tx")
    /\ \E i \in Handled :
        /\ StateBlocked(i)
        /\ trace[i].rule = "State - NY, Texas"
        /\ ~Includes("NY, Texas", "tx")

(***************************************************************************)
(* parseCSV applied to bounded texts: up to MaxLines line pieces, each     *)
(* two joined by one of the line breaks.                                   *)
(***************************************************************************)
MaxLines == 3

QuotedLine == "Acme,\"Smith, and Co\",\"He said \"\"hi\"\"\""

LinePieces == {"Lender Name,pos_min", QuotedLine, " ,2", "0,3", ""}

LineBreaks == {"\n", "\r\n", "\r"}

RECURSIVE TextsOf(_)
TextsOf(n) ==
    IF n = 1 THEN LinePieces
    ELSE {t \o b \o l : t \in TextsOf(n - 1), b \in LineBreaks, l \in LinePieces}

MaxFieldChars == 4

FieldChars == {"a", ",", "\"", " "}

RECURSIVE ShortLines(_)
ShortLines(n) ==
    IF n = 0 THEN {""}
    ELSE ShortLines(n - 1)
         \cup {l \o c : l \in ShortLines(n - 1), c \in FieldChars}

\* a header line and one short data line over FieldChars
ShortTexts == {"Lender Name,x\n" \o l : l \in ShortLines(MaxFieldChars)}

Texts == UNION {TextsOf(n) : n \in 1..MaxLines} \cup ShortTexts

InitCSV ==
    /\ text \in Texts
    /\ result = <<>>
    /\ parsed = Null
    /\ csvData = Null
    /\ EngineIdle
    /\ NormalizerIdle
    /\ FileIdle

\* one call parseCSV(text): it returns the data or throws
ParseCSV ==
    /\ parsed = Null
    /\ \E outcome \in {parseCSV(text)} :
           /\ parsed' = outcome
           /\ result' = IF IsThrown(outcome) THEN <<>> ELSE ResultRows(text)
    /\ UNCHANGED <<text, engineVars, stateVars, fileVars>>

NextCSV == ParseCSV

SpecCSV == InitCSV /\ [][NextCSV]_vars

(***************************************************************************)
(* Properties of parseCSV.                                                 *)
(***************************************************************************)
Called == parsed # Null

\* the number of non-blank pieces of txt between the characters of `breaks`
\* (a CRLF pair leaves an empty piece between its two characters, which is
\* blank)
NonBlankPieces(txt, breaks) ==
    LET cuts == {0} \cup {i \in 1..Len(txt) : CharAt(txt, i) \in breaks}
        nextCut(p) ==
            IF \E q \in cuts : q > p
            THEN CHOOSE q \in cuts : q > p /\ \A r \in cuts : r > p => q <= r
            ELSE Len(txt) + 1
    IN  Cardinality({p \in cuts : Trim(SubSeq(txt, p + 1, nextCut(p) - 1)) # ""})

FormatErrorIffFewerThanTwo(breaks) ==
    Called =>
        /\ IsThrown(parsed) = (NonBlankPieces(text, breaks) < 2)
        /\ IsThrown(parsed) =>
             /\ parsed.message = "CSV parsing failed: " \o FormatErrorMessage
             /\ result = <<>>
        /\ ~IsThrown(parsed) => parsed.t = "array"

\* C6 as stated: parseCSV fails exactly when the input has fewer than 2
\* non-blank lines, the lines being cut at LF, CRLF or a bare CR.
C6_AsStated == FormatErrorIffFewerThanTwo({"\n", "\r"})

\* C6 amended: the same with the lines cut at LF or CRLF only; a bare CR
\* does not end a line.  On failure nothing is returned; with 2 or more
\* such lines a record sequence is returned.
C6_FormatError == FormatErrorIffFewerThanTwo({"\n"})

\* a failed call on an input whose only non-blank line ends in CRLF
C6_Witness ==
    /\ IsThrown(parsed)
    /\ Includes(text, "\r\n")
    /\ NonBlankPieces(text, {"\n"}) = 1

\* the non-blank lines of the input, in order
InputLines == SelectSeq(SplitLines(text), NonBlank)

QuoteCount(line, n) == Cardinality({j \in 1..n : CharAt(line, j) = "\""})

\* the commas of a line that have an even number of quote characters
\* before them
OutsideCommas(line) ==
    {i \in 1..Len(line) :
        CharAt(line, i) = "," /\ QuoteCount(line, i - 1) % 2 = 0}

\* C7: a quote toggles the inside-quotes state, a doubled quote inside
\* quotes is one literal quote, a comma ends a field only outside quotes:
\* the quoted example line gives its three fields, and every line gives one
\* field more than it has commas outside quotes.
C7_QuotedFields ==
    (Called /\ ~IsThrown(parsed)) =>
        /\ Len(result) = Len(InputLines)
        /\ \A k \in 1..Len(result) :
            /\ Len(result[k]) = 1 + Cardinality(OutsideCommas(InputLines[k]))
            /\ InputLines[k] = QuotedLine =>
                 result[k] = <<"Acme", "Smith, and Co", "He said \"hi\"">>
            /\ InputLines[k] = "\"a\"\"\"" => result[k] = <<"a\"">>
            /\ InputLines[k] = "\"a,\",a" => result[k] = <<"a,", "a">>

\* a parse whose second line is the quoted example, split in three fields
C7_Witness ==
    /\ Called
    /\ ~IsThrown(parsed)
    /\ Len(result) >= 2
    /\ InputLines[2] = QuotedLine
    /\ result[2] = <<"Acme", "Smith, and Co", "He said \"hi\"">>

\* the data rows whose "Lender Name" cell is present and not blank
NamedRows ==
    LET headers == result[1]
        named(fields) ==
            \E k \in 1..Len(headers) :
                /\ headers[k] = "Lender Name"
                /\ \A j \in 1..Len(headers) : headers[j] = "Lender Name" => j <= k
                /\ k <= Len(fields)
                /\ Trim(fields[k]) # ""
    IN  SelectSeq(Tail(result), named)

\* C9: parseCSV returns, in input order, one record for every data row whose
\* "Lender Name" cell is present and non-blank after trimming, whatever the
\* type the cell is given.
C9_AsStated ==
    (Called /\ ~IsThrown(parsed)) =>
        parsed.rows = [j \in 1..Len(NamedRows) |-> RowObject(result[1], NamedRows[j])]

(***************************************************************************)
(* The state normalizer applied to a code, a name or an unknown token:     *)
(* getFullStateName first, normalizeState on what it returned.             *)
(***************************************************************************)
StateInputs ==
    StateCodes \cup {ToUpperCase(c) : c \in StateCodes} \cup StateNames
        \cup {"zz", " ny ", "Puerto Rico"}

InitState ==
    /\ stateArg \in StateInputs
    /\ fullName = ""
    /\ stateCode = ""
    /\ phase = "start"
    /\ csvData = Null
    /\ EngineIdle
    /\ ParserIdle
    /\ FileIdle

GetFullStateName ==
    /\ phase = "start"
    /\ fullName' = getFullStateName(stateArg)
    /\ phase' = "named"
    /\ UNCHANGED <<stateArg, stateCode, engineVars, parserVars, fileVars>>

NormalizeState ==
    /\ phase = "named"
    /\ stateCode' = normalizeState(Str(fullName))
    /\ phase' = "done"
    /\ UNCHANGED <<stateArg, fullName, engineVars, parserVars, fileVars>>

NextState == GetFullStateName \/ NormalizeState

SpecState == InitState /\ [][NextState]_vars

(***************************************************************************)
(* Properties of the state normalizer.                                     *)
(***************************************************************************)
\* C8: for each of the 50 known state codes c,
\* normalizeState(getFullStateName(c)) = c.
C8_RoundTrip ==
    /\ Cardinality(StateCodes) = 50
    /\ (phase # "start" /\ stateArg \in StateCodes) =>
         ToLowerCase(fullName) \in StateNames
    /\ (phase = "done" /\ stateArg \in StateCodes) => stateCode = stateArg

\* the round trip of "ny" through "New York"
C8_Witness ==
    /\ phase = "done"
    /\ stateArg = "ny"
    /\ fullName = "New York"
    /\ stateCode = "ny"

(***************************************************************************)
(* The csvFile change listener, its FileReaders and the process button.    *)
(* A handler runs to completion: no event is delivered while processLenders *)
(* is inside its forEach.  The reads of different FileReaders complete in  *)
(* any order.                                                              *)
(***************************************************************************)
MaxSelections == 3

File(name, content, readable) ==
    [t |-> "file", name |-> name, content |-> content, readable |-> readable]

\* the files the user can choose; the read of an unreadable file ends in
\* onerror, every other read in onload
Files ==
    { File("a.csv", "Lender Name,pos_min,pos_max\nAcme Fund,1,2", TRUE),
      File("B.CSV", "Lender Name,pos_min,pos_max\r\nBolt Co,1,5\r\n", TRUE),
      File("bad.csv", "Lender Name,pos_min,pos_max", TRUE),
      File("notes.txt", "Lender Name,pos_min,pos_max\nZed Co,1,5", TRUE),
      File("gone.csv", "", FALSE) }

\* file.name.toLowerCase().endsWith('.csv')
IsCsvName(name) == EndsWith(ToLowerCase(name), ".csv")

\* the merchant form is filled in throughout
isFormValid == TRUE

\* updateProcessButton(): the new value of btn.disabled, given csvData
UpdateProcessButton(data) == data = Null \/ ~isFormValid

\* the criteria the click handler builds and lets through its validation
ClickCriteria ==
    {c \in Criteria :
        /\ IsStr(c.state) /\ IsStr(c.industry)
        /\ c.requestedPosition >= 1 /\ c.requestedPosition <= 10
        /\ c.tib >= 0 /\ c.monthlyRevenue >= 0
        /\ c.fico >= 300 /\ c.fico <= 850}

InitFile ==
    /\ csvData = Null
    /\ EngineIdle
    /\ ParserIdle
    /\ NormalizerIdle
    /\ FileIdle

\* the change listener of the csvFile input: no file or a file that is not
\* a .csv clears csvData at once; a .csv file starts a read and leaves
\* csvData as it is
CsvFileChange ==
    /\ pc # "forEach"
    /\ selections < MaxSelections
    /\ \E file \in Files \cup {Undefined} :
        /\ selected' = file
        /\ selections' = selections + 1
        /\ IF file = Undefined \/ ~IsCsvName(file.name)
           THEN /\ csvData' = Null
                /\ btnDisabled' = UpdateProcessButton(Null)
                /\ readers' = readers
           ELSE /\ readers' = readers \cup {[id |-> selections + 1, file |-> file]}
                /\ UNCHANGED <<csvData, btnDisabled>>
    /\ UNCHANGED <<criteria, pc, index, qualifiedLenders, nonQualifiedLenders,
                   autoDroppedCount, processingErrors, trace, parserVars,
                   stateVars>>

\* reader.onload of one pending read: csvData = parseCSV(e.target.result),
\* or null when parseCSV throws
ReaderOnLoad ==
    /\ pc # "forEach"
    /\ \E r \in readers :
        /\ r.file.readable
        /\ \E outcome \in {parseCSV(r.file.content)} :
           \E data \in {IF IsThrown(outcome) THEN Null ELSE outcome} :
               /\ csvData' = data
               /\ btnDisabled' = UpdateProcessButton(data)
        /\ readers' = readers \ {r}
    /\ UNCHANGED <<selected, selections, criteria, pc, index, qualifiedLenders,
                   nonQualifiedLenders, autoDroppedCount, processingErrors,
                   trace, parserVars, stateVars>>

\* reader.onerror of one pending read
ReaderOnError ==
    /\ pc # "forEach"
    /\ \E r \in readers :
        /\ ~r.file.readable
        /\ readers' = readers \ {r}
    /\ csvData' = Null
    /\ btnDisabled' = UpdateProcessButton(Null)
    /\ UNCHANGED <<selected, selections, criteria, pc, index, qualifiedLenders,
                   nonQualifiedLenders, autoDroppedCount, processingErrors,
                   trace, parserVars, stateVars>>

\* a click on the enabled process button: processLenders(merchantCriteria)
ProcessClick ==
    /\ pc # "forEach"
    /\ ~btnDisabled
    /\ \E c \in ClickCriteria : ProcessLendersCall(c)

NextFile ==
    \/ CsvFileChange
    \/ ReaderOnLoad
    \/ ReaderOnError
    \/ ProcessClick
    \/ ForEachLender
    \/ DisplayResults

SpecFile == InitFile /\ [][NextFile]_vars

(***************************************************************************)
(* Properties of the file selection.                                       *)
(***************************************************************************)
\* what csvData should hold for the file chosen last: its parse result when
\* it is a readable .csv that parses, null otherwise
ExpectedData(file) ==
    IF file = Undefined THEN Null
    ELSE IF ~IsCsvName(file.name) \/ ~file.readable THEN Null
    ELSE IF IsThrown(parseCSV(file.content)) THEN Null
    ELSE parseCSV(file.content)

\* C11: once every started read has completed, csvData is the parse result
\* of the file selected last (null when that is no file, not a .csv, or
\* failed to read or parse), and processLenders only ever evaluates the
\* dataset of the file selected last.
C11_AsStated ==
    /\ readers = {} => csvData = ExpectedData(selected)
    /\ pc = "forEach" => csvData = ExpectedData(selected)

====
